---- MODULE Spec2Model ----
(***************************************************************************)
(* Shapekey Tools (src/_init_.py): the four operators of the add-on as a   *)
(* state machine over one mesh object.                                     *)
(*                                                                         *)
(* Coordinates are integers on a grid; a length is never computed, only    *)
(* compared: for t >= 0, |v| > t  iff  |v|^2 > t^2.  Vertex-group weights  *)
(* are counted in halves (0, 1, 2 stand for 0.0, 0.5, 1.0).                *)
(***************************************************************************)
EXTENDS Integers, Sequences, FiniteSets

VARIABLES
    basis,        \* shape_keys.reference_key.data[i].co, a sequence of vectors
    shape,        \* obj.active_shape_key.data[i].co
    vselect,      \* mesh.vertices[i].select
    fselect,      \* mesh.polygons[f].select
    mode,         \* obj.mode
    select_mode,  \* the mesh select mode set by bpy.ops.mesh.select_mode
    call,         \* the last operator call: its bl_idname and properties
    report,       \* what that call reported and returned
    pre           \* basis, shape and mode as they were when that call began

vars == <<basis, shape, vselect, fselect, mode, select_mode, call, report, pre>>

(***************************************************************************)
(* Bounds of the model.                                                    *)
(***************************************************************************)
NumVerts == 4
MaxMoving == 50

Zero == <<0, 0, 0>>
Displacements == {Zero, <<2, 0, 0>>, <<0, 4, 0>>}
BasisArrays == {[i \in 1..NumVerts |-> <<i, 0, i>>]}
Modes == {"OBJECT", "EDIT", "SCULPT"}
Thresholds == {0, 2}
Percentages == {0, 25, 50, 100}
GroupNames == {"Group", "Other"}
RequestedNames == {"Group", "Missing"}

(***************************************************************************)
(* Host data the operators read.                                           *)
(***************************************************************************)
Verts == 1..Len(shape)

\* mesh.polygons[f].vertices: a triangle strip over the vertices
Faces == [f \in 1..(Len(shape) - 2) |-> <<f, f + 1, f + 2>>]

\* obj.vertex_groups: .get(name) and .index
GroupIndex(name) ==
    IF name = "Group" THEN 0 ELSE IF name = "Other" THEN 1 ELSE -1

\* mesh.vertices[i].groups: (group index, weight in halves) elements
VertexGroupsOf(i) ==
    CASE i % 4 = 1 -> << >>
      [] i % 4 = 2 -> <<[group |-> 0, weight |-> 2]>>
      [] i % 4 = 3 -> <<[group |-> 1, weight |-> 2], [group |-> 0, weight |-> 1]>>
      [] OTHER     -> <<[group |-> 0, weight |-> 0], [group |-> 1, weight |-> 1]>>

(***************************************************************************)
(* mathutils.Vector                                                        *)
(***************************************************************************)
Sub(a, b) == <<a[1] - b[1], a[2] - b[2], a[3] - b[3]>>

Length2(v) == v[1] * v[1] + v[2] * v[2] + v[3] * v[3]

\* mutant: >= in place of >
MovedAtLeast(shape_co, basis_co, threshold) ==
    Length2(Sub(shape_co, basis_co)) >= threshold * threshold

\* (shape_co - basis_co).length > threshold
MovedBeyond(shape_co, basis_co, threshold) ==
    Length2(Sub(shape_co, basis_co)) > threshold * threshold

NoCall == [op |-> "none", threshold |-> 0, vertex_group |-> "", invert |-> FALSE,
           threshold_mode |-> "", percentage |-> 0, distance_threshold |-> 0]

NoReport == [level |-> "", result |-> "", message |-> "", count |-> 0,
             moving |-> 0, remaining |-> 0]

Snapshot == [basis |-> basis, shape |-> shape, mode |-> mode]

(***************************************************************************)
(* MESH_OT_select_shapekey_vertices.execute                                *)
(***************************************************************************)
\* the loop of lines 56-63 from vertex i on: the select flags and the count
RECURSIVE SelectLoop(_, _, _, _)
SelectLoop(i, threshold, sel, affected_count) ==
    IF i > Len(shape) THEN [select |-> sel, count |-> affected_count]
    ELSE IF MovedBeyond(shape[i], basis[i], threshold)
         THEN SelectLoop(i + 1, threshold, [sel EXCEPT ![i] = TRUE], affected_count + 1)
         ELSE SelectLoop(i + 1, threshold, sel, affected_count)

SelectVertices(threshold) ==
    LET r == SelectLoop(1, threshold, [i \in Verts |-> FALSE], 0) IN
    /\ vselect' = r.select
    /\ mode' = "EDIT"
    /\ select_mode' = "VERT"
    /\ call' = [NoCall EXCEPT !.op = "select_shapekey_vertices", !.threshold = threshold]
    /\ report' = [NoReport EXCEPT !.level = "INFO", !.result = "FINISHED",
                                  !.message = "Selected affected vertices",
                                  !.count = r.count]
    /\ pre' = Snapshot
    /\ UNCHANGED <<basis, shape, fselect>>

(***************************************************************************)
(* MESH_OT_select_shapekey_faces.execute                                   *)
(***************************************************************************)
\* the loop of lines 114-119 from vertex i on: the set affected_verts
RECURSIVE AffectedVerts(_, _, _)
AffectedVerts(i, threshold, affected_verts) ==
    IF i > Len(shape) THEN affected_verts
    ELSE IF MovedBeyond(shape[i], basis[i], threshold)
         THEN AffectedVerts(i + 1, threshold, affected_verts \cup {i})
         ELSE AffectedVerts(i + 1, threshold, affected_verts)

\* mutant: a face is taken only when every vertex of it is affected
FaceCovered(face_vertices, k, affected_verts) ==
    \A j \in k..Len(face_vertices) : face_vertices[j] \in affected_verts

\* the inner loop of lines 128-132 from the k-th vertex of the face on: whether
\* it reaches the break
RECURSIVE FaceTouches(_, _, _)
FaceTouches(face_vertices, k, affected_verts) ==
    IF k > Len(face_vertices) THEN FALSE
    ELSE IF face_vertices[k] \in affected_verts THEN TRUE
         ELSE FaceTouches(face_vertices, k + 1, affected_verts)

\* the outer loop of lines 127-132 from face f on
RECURSIVE FaceLoop(_, _, _, _)
FaceLoop(f, affected_verts, sel, affected_count) ==
    IF f > Len(Faces) THEN [select |-> sel, count |-> affected_count]
    ELSE IF FaceTouches(Faces[f], 1, affected_verts)
         THEN FaceLoop(f + 1, affected_verts, [sel EXCEPT ![f] = TRUE], affected_count + 1)
         ELSE FaceLoop(f + 1, affected_verts, sel, affected_count)

SelectFaces(threshold) ==
    LET affected_verts == AffectedVerts(1, threshold, {})
        r == FaceLoop(1, affected_verts, [f \in 1..Len(Faces) |-> FALSE], 0) IN
    /\ fselect' = r.select
    /\ mode' = "EDIT"
    /\ select_mode' = "FACE"
    /\ call' = [NoCall EXCEPT !.op = "select_shapekey_faces", !.threshold = threshold]
    /\ report' = [NoReport EXCEPT !.level = "INFO", !.result = "FINISHED",
                                  !.message = "Selected affected faces",
                                  !.count = r.count]
    /\ pre' = Snapshot
    /\ UNCHANGED <<basis, shape, vselect>>

(***************************************************************************)
(* MESH_OT_blend_shapekey_from_vgroup.execute                              *)
(***************************************************************************)
\* the loop of lines 201-205 from the k-th element of vert.groups on
RECURSIVE FindWeight(_, _, _)
FindWeight(groups, k, index) ==
    IF k > Len(groups) THEN 0
    ELSE IF groups[k].group = index THEN groups[k].weight
         ELSE FindWeight(groups, k + 1, index)

\* lines 201-209: the weight used for vertex i, in halves
BlendWeight(i, index, invert) ==
    LET weight == FindWeight(VertexGroupsOf(i), 1, index) IN
    IF invert THEN 2 - weight ELSE weight

\* mutant: the interpolation runs from b to a
LerpReversed(a, b, weight) ==
    [c \in 1..3 |-> ((2 - weight) * b[c] + weight * a[c]) \div 2]

\* a.lerp(b, weight) = (1 - weight) * a + weight * b, the weight in halves
Lerp(a, b, weight) ==
    [c \in 1..3 |-> ((2 - weight) * a[c] + weight * b[c]) \div 2]

\* the grid holds the interpolated point
OnGrid(a, b, weight) ==
    \A c \in 1..3 : ((2 - weight) * a[c] + weight * b[c]) % 2 = 0

\* lines 199-216: the new active_key.data
BlendedShape(index, invert) ==
    [i \in Verts |-> Lerp(basis[i], shape[i], BlendWeight(i, index, invert))]

\* mutant: the group is looked up after the switch to object mode
VGroupNotFoundInObjectMode(vertex_group, invert) ==
    /\ call' = [NoCall EXCEPT !.op = "blend_shapekey_from_vgroup",
                              !.vertex_group = vertex_group, !.invert = invert]
    /\ report' = [NoReport EXCEPT !.level = "ERROR", !.result = "CANCELLED",
                                  !.message = "Vertex group not found"]
    /\ pre' = Snapshot
    /\ mode' = "OBJECT"
    /\ UNCHANGED <<basis, shape, vselect, fselect, select_mode>>

\* lines 184-186: the report and the return when .get() finds no group
VGroupNotFound(vertex_group, invert) ==
    /\ call' = [NoCall EXCEPT !.op = "blend_shapekey_from_vgroup",
                              !.vertex_group = vertex_group, !.invert = invert]
    /\ report' = [NoReport EXCEPT !.level = "ERROR", !.result = "CANCELLED",
                                  !.message = "Vertex group not found"]
    /\ pre' = Snapshot
    /\ UNCHANGED <<basis, shape, vselect, fselect, mode, select_mode>>

BlendFromVGroup(vertex_group, invert) ==
    IF vertex_group \notin GroupNames
    THEN VGroupNotFound(vertex_group, invert)
    ELSE /\ \A i \in Verts :
                OnGrid(basis[i], shape[i], BlendWeight(i, GroupIndex(vertex_group), invert))
         /\ shape' = BlendedShape(GroupIndex(vertex_group), invert)
         /\ call' = [NoCall EXCEPT !.op = "blend_shapekey_from_vgroup",
                                   !.vertex_group = vertex_group, !.invert = invert]
         /\ report' = [NoReport EXCEPT !.level = "INFO", !.result = "FINISHED",
                                       !.message = "Blended shape key"]
         /\ pre' = Snapshot
         \* mode_set(mode='OBJECT') at line 196 is undone by line 223
         /\ UNCHANGED <<basis, vselect, fselect, mode, select_mode>>

(***************************************************************************)
(* Python float arithmetic of line 319, int(n * (percentage / 100.0)): IEEE *)
(* binary64, round to nearest, ties to even.  A 53-bit significand is held *)
(* as four limbs, most significant first: 11 bits, then three of 14 bits;  *)
(* a float is its limbs and the number of its bits behind the binary       *)
(* point.                                                                  *)
(***************************************************************************)
RECURSIVE Pow2(_)
Pow2(k) == IF k = 0 THEN 1 ELSE 2 * Pow2(k - 1)

\* the number of binary digits of a natural number
RECURSIVE BitLength(_)
BitLength(x) == IF x = 0 THEN 0 ELSE 1 + BitLength(x \div 2)

\* the value of Body at e, with e evaluated once
Eval(e, Body(_)) == CHOOSE result \in {Body(x) : x \in {e}} : TRUE

\* the carries of the three lower limbs taken up into the limbs above them
Carry(limbs) ==
    LET Limbs(x) ==
            LET l4 == x[4]
                l3 == x[3] + l4 \div 16384
                l2 == x[2] + l3 \div 16384
                l1 == x[1] + l2 \div 16384
            IN  <<l1, l2 % 16384, l3 % 16384, l4 % 16384>>
    IN  Eval(limbs, Limbs)

\* how many zeros follow the binary point of r / 100 before its first one (0 < r < 100)
RECURSIVE LeadingZeros(_)
LeadingZeros(r) == IF 2 * r >= 100 THEN 0 ELSE 1 + LeadingZeros(2 * r)

\* percentage / 100.0: long division to 53 significant bits, then rounding
PercentFraction(percentage) ==
    IF percentage = 0 THEN [limbs |-> <<0, 0, 0, 0>>, frac |-> 53]
    ELSE IF percentage = 100 THEN [limbs |-> <<1024, 0, 0, 0>>, frac |-> 52]
    ELSE LET z  == LeadingZeros(percentage)
             r0 == percentage * Pow2(z)
             l1 == (r0 * 2048) \div 100
             r1 == (r0 * 2048) % 100
             l2 == (r1 * 16384) \div 100
             r2 == (r1 * 16384) % 100
             l3 == (r2 * 16384) \div 100
             r3 == (r2 * 16384) % 100
             l4 == (r3 * 16384) \div 100
             r4 == (r3 * 16384) % 100
             up == 2 * r4 > 100 \/ (2 * r4 = 100 /\ l4 % 2 = 1)
         IN  [limbs |-> Carry(<<l1, l2, l3, IF up THEN l4 + 1 ELSE l4>>),
              frac |-> z + 53]

\* the exact product limbs * n
Multiply(limbs, n) ==
    Carry(<<limbs[1] * n, limbs[2] * n, limbs[3] * n, limbs[4] * n>>)

\* the binary64 nearest to a number of more than 53 bits: its low k bits
\* rounded away, k the bits the first limb has beyond 11
RoundToDouble(limbs) ==
    LET Rounded(x, k) ==
            LET low  == x[4] % Pow2(k)
                half == Pow2(k - 1)
                lsb  == (x[4] \div Pow2(k)) % 2
                up   == low > half \/ (low = half /\ lsb = 1)
                l4   == x[4] - low + (IF up THEN Pow2(k) ELSE 0)
            IN  Carry(<<x[1], x[2], x[3], l4>>)
        Nearest(x) == IF BitLength(x[1]) <= 11 THEN x ELSE Rounded(x, BitLength(x[1]) - 11)
    IN  Eval(limbs, Nearest)

\* int(n * (percentage / 100.0))
NumToReset(n, percentage) ==
    LET IntegerPart(q) == RoundToDouble(Multiply(q.limbs, n))[1] \div Pow2(q.frac - 42)
    IN  Eval(PercentFraction(percentage), IntegerPart)

(***************************************************************************)
(* MESH_OT_blend_to_basis_by_distance.execute                              *)
(***************************************************************************)
\* the loop of lines 298-304 from vertex i on: (index, squared distance) of
\* the vertices that move
RECURSIVE VertexDistances(_, _)
VertexDistances(i, vertex_distances) ==
    IF i > Len(shape) THEN vertex_distances
    ELSE LET dist == Length2(Sub(shape[i], basis[i])) IN
         IF dist > 0
         THEN VertexDistances(i + 1, Append(vertex_distances, <<i, dist>>))
         ELSE VertexDistances(i + 1, vertex_distances)

\* x put into an ascending list behind every element that is not larger
InsertSorted(sorted, x) ==
    LET k == Cardinality({j \in 1..Len(sorted) : sorted[j][2] <= x[2]}) IN
    SubSeq(sorted, 1, k) \o <<x>> \o SubSeq(sorted, k + 1, Len(sorted))

\* list.sort(key=lambda x: x[1]): ascending and stable
RECURSIVE SortByDistance(_)
SortByDistance(list) ==
    IF list = << >> THEN << >>
    ELSE CHOOSE result \in {InsertSorted(sorted, list[Len(list)]) :
                               sorted \in {SortByDistance(SubSeq(list, 1, Len(list) - 1))}} : TRUE

\* mutant: the threshold is exclusive
VerticesToResetBelow(vertex_distances, threshold_mode, percentage, distance_threshold) ==
    IF threshold_mode = "PERCENTAGE"
    THEN LET Slice(num_to_reset) ==
                 [k \in 1..(IF num_to_reset < Len(vertex_distances)
                            THEN num_to_reset ELSE Len(vertex_distances)) |->
                     vertex_distances[k][1]]
         IN  Eval(NumToReset(Len(vertex_distances), percentage), Slice)
    ELSE LET keep(v) == v[2] < distance_threshold * distance_threshold IN
         [k \in 1..Len(SelectSeq(vertex_distances, keep)) |->
             SelectSeq(vertex_distances, keep)[k][1]]

\* lines 317-323: the vertex indices to reset, in the order of the sorted list
VerticesToReset(vertex_distances, threshold_mode, percentage, distance_threshold) ==
    IF threshold_mode = "PERCENTAGE"
    THEN LET Slice(num_to_reset) ==
                 [k \in 1..(IF num_to_reset < Len(vertex_distances)
                            THEN num_to_reset ELSE Len(vertex_distances)) |->
                     vertex_distances[k][1]]
         IN  Eval(NumToReset(Len(vertex_distances), percentage), Slice)
    ELSE LET keep(v) == v[2] <= distance_threshold * distance_threshold IN
         [k \in 1..Len(SelectSeq(vertex_distances, keep)) |->
             SelectSeq(vertex_distances, keep)[k][1]]

\* mutant: the reset writes the origin, not the basis position
ResetToOrigin(vertices_to_reset) ==
    [i \in Verts |->
        IF \E k \in 1..Len(vertices_to_reset) : vertices_to_reset[k] = i
        THEN Zero ELSE shape[i]]

\* mutant: the reset loop writes nothing
ResetNothing(vertices_to_reset) == shape

\* mutant: every moving vertex the call does not reset is pulled towards basis
ResetAndPull(vertices_to_reset) ==
    [i \in Verts |->
        IF \E k \in 1..Len(vertices_to_reset) : vertices_to_reset[k] = i
        THEN basis[i]
        ELSE <<basis[i][1] + (shape[i][1] - basis[i][1]) \div 2,
               basis[i][2] + (shape[i][2] - basis[i][2]) \div 2,
               basis[i][3] + (shape[i][3] - basis[i][3]) \div 2>>]

\* lines 326-330: active_key.data after the reset loop
ResetToBasis(vertices_to_reset) ==
    [i \in Verts |->
        IF \E k \in 1..Len(vertices_to_reset) : vertices_to_reset[k] = i
        THEN basis[i] ELSE shape[i]]

CleanUp(threshold_mode, percentage, distance_threshold) ==
    \E unsorted \in {VertexDistances(1, << >>)} :
    \E vertex_distances \in {SortByDistance(unsorted)} :
    \E vertices_to_reset \in {VerticesToReset(vertex_distances, threshold_mode,
                                               percentage, distance_threshold)} :
    \E reset_count \in {Len(vertices_to_reset)} :
    /\ call' = [NoCall EXCEPT !.op = "blend_to_basis_by_distance",
                              !.threshold_mode = threshold_mode,
                              !.percentage = percentage,
                              !.distance_threshold = distance_threshold]
    /\ pre' = Snapshot
    /\ IF unsorted = << >>
       THEN \* lines 307-309: the return that follows mode_set(mode='OBJECT')
            /\ mode' = "OBJECT"
            /\ report' = [NoReport EXCEPT !.level = "INFO", !.result = "FINISHED",
                                          !.message = "No vertices to clean"]
            /\ UNCHANGED <<basis, shape, vselect, fselect, select_mode>>
       ELSE /\ shape' = ResetToBasis(vertices_to_reset)
            /\ report' = [NoReport EXCEPT !.level = "INFO", !.result = "FINISHED",
                                          !.message = "Reset vertices",
                                          !.count = reset_count,
                                          !.moving = Len(vertex_distances),
                                          !.remaining = Len(vertex_distances) - reset_count]
            \* mode_set(mode='OBJECT') at line 293 is undone by line 337
            /\ UNCHANGED <<basis, vselect, fselect, mode, select_mode>>

(***************************************************************************)
(* The object the operators are called on, and the calls a user can make.  *)
(***************************************************************************)
InitMesh ==
    /\ basis \in BasisArrays
    /\ \E d \in [1..NumVerts -> Displacements] :
          shape = [i \in 1..NumVerts |->
                      <<basis[i][1] + d[i][1], basis[i][2] + d[i][2], basis[i][3] + d[i][3]>>]
    /\ vselect = [i \in 1..NumVerts |-> FALSE]
    /\ fselect = [f \in 1..(NumVerts - 2) |-> FALSE]
    /\ mode \in Modes
    /\ select_mode = "VERT"
    /\ report = NoReport
    /\ pre = [basis |-> basis, shape |-> shape, mode |-> mode]

Init == InitMesh /\ call = NoCall

Next ==
    \/ \E t \in Thresholds : SelectVertices(t)
    \/ \E t \in Thresholds : SelectFaces(t)
    \/ \E g \in RequestedNames, inv \in BOOLEAN : BlendFromVGroup(g, inv)
    \/ \E p \in Percentages : CleanUp("PERCENTAGE", p, 0)
    \/ \E t \in Thresholds : CleanUp("THRESHOLD", 0, t)

Spec == Init /\ [][Next]_vars

(***************************************************************************)
(* Clean Up Small Movements pressed again and again with the percentage    *)
(* property left as it is.  A press runs execute to its end, so a press    *)
(* that can change something is taken: weak fairness.                      *)
(***************************************************************************)
InitRepeat ==
    /\ InitMesh
    /\ \E p \in Percentages \ {0} : call = [NoCall EXCEPT !.percentage = p]

NextRepeat == CleanUp("PERCENTAGE", call.percentage, 0)

SpecRepeat == InitRepeat /\ [][NextRepeat]_vars /\ WF_vars(NextRepeat)

(***************************************************************************)
(* One PERCENTAGE clean-up of a mesh of up to MaxMoving vertices, all of   *)
(* them moving, at any whole percentage.                                   *)
(***************************************************************************)
InitLarge ==
    /\ \E m \in 1..MaxMoving :
          /\ basis = [i \in 1..m |-> <<i, 0, i>>]
          /\ shape = [i \in 1..m |-> <<i + 1 + (i % 2), 0, i>>]
          /\ vselect = [i \in 1..m |-> FALSE]
          /\ fselect = [f \in 1..(m - 2) |-> FALSE]
    /\ mode = "OBJECT"
    /\ select_mode = "VERT"
    /\ call = NoCall
    /\ report = NoReport
    /\ pre = [basis |-> basis, shape |-> shape, mode |-> mode]

NextLarge == call.op = "none" /\ \E p \in 0..100 : CleanUp("PERCENTAGE", p, 0)

SpecLarge == InitLarge /\ [][NextLarge]_vars
(***************************************************************************)
(* What the claims speak of, stated over the state a call leaves behind.   *)
(***************************************************************************)
\* squared displacement of vertex i between two position arrays
Displacement2(s, b, i) == Length2(Sub(s[i], b[i]))

\* the moving set of a pair of arrays
MovingSet(s, b) == {i \in 1..Len(s) : Displacement2(s, b, i) > 0}

MovingBefore == MovingSet(pre.shape, pre.basis)

MovingNow == MovingSet(shape, basis)

CleanUpCalled == call.op = "blend_to_basis_by_distance"

\* the vertices whose displacement exceeds the threshold t
AffectedSet(t) == {i \in Verts : Displacement2(shape, basis, i) > t * t}

\* the weight of vertex i in the named group, in halves; 0 when it is not in it
WeightInGroup(i, name) ==
    LET entries == {k \in 1..Len(VertexGroupsOf(i)) :
                        VertexGroupsOf(i)[k].group = GroupIndex(name)} IN
    IF entries = {} THEN 0
    ELSE VertexGroupsOf(i)[CHOOSE k \in entries : \A j \in entries : k <= j].weight

EffectiveWeight(i) ==
    IF call.invert THEN 2 - WeightInGroup(i, call.vertex_group)
    ELSE WeightInGroup(i, call.vertex_group)

\* C1: after Select Affected Vertices the selected vertices are exactly those
\* whose displacement is strictly greater than the threshold, whatever was
\* selected before, and the reported count is the size of that set.
C1_SelectsExactlyAffectedVertices ==
    call.op = "select_shapekey_vertices" =>
        /\ {i \in Verts : vselect[i]} = AffectedSet(call.threshold)
        /\ report.count = Cardinality(AffectedSet(call.threshold))

\* a call at threshold 2 with one vertex displaced by exactly 2 (left
\* unselected) and one displaced further (selected)
C1_Witness ==
    /\ call.op = "select_shapekey_vertices"
    /\ call.threshold = 2
    /\ \E i \in Verts : Displacement2(shape, basis, i) = 4 /\ ~vselect[i]
    /\ \E i \in Verts : Displacement2(shape, basis, i) = 16 /\ vselect[i]
    /\ report.count >= 1

\* C2: after Select Affected Faces the selected faces are exactly those with
\* at least one vertex whose displacement exceeds the threshold, and the
\* reported count is the number of selected faces, each counted once.
C2_SelectsExactlyTouchedFaces ==
    call.op = "select_shapekey_faces" =>
        LET touched == {f \in 1..Len(Faces) :
                           \E k \in 1..Len(Faces[f]) :
                               Faces[f][k] \in AffectedSet(call.threshold)} IN
        /\ {f \in 1..Len(Faces) : fselect[f]} = touched
        /\ report.count = Cardinality(touched)

\* one face selected for a single affected vertex of it, another face with no
\* affected vertex left unselected
C2_Witness ==
    /\ call.op = "select_shapekey_faces"
    /\ \E f \in 1..Len(Faces) :
          /\ fselect[f]
          /\ Cardinality({k \in 1..Len(Faces[f]) :
                             Faces[f][k] \in AffectedSet(call.threshold)}) = 1
    /\ \E f \in 1..Len(Faces) : ~fselect[f]
    /\ report.count = 1

\* C3: a finished Blend from Vertex Group leaves every vertex at
\* lerp(basis, shape, w), w its weight in the named group (0 when it is not in
\* the group), inverted to 1 - w when invert is set: weight 1 keeps the shape
\* position, weight 0 ends at the basis position.
C3_BlendIsLerpFromBasisToShape ==
    (call.op = "blend_shapekey_from_vgroup" /\ report.result = "FINISHED") =>
        \A i \in Verts :
            /\ \A c \in 1..3 :
                  2 * shape[i][c] = (2 - EffectiveWeight(i)) * pre.basis[i][c]
                                    + EffectiveWeight(i) * pre.shape[i][c]
            /\ EffectiveWeight(i) = 2 => shape[i] = pre.shape[i]
            /\ EffectiveWeight(i) = 0 => shape[i] = pre.basis[i]

\* a blend in which a moving vertex of weight 1 stayed, a moving vertex
\* outside the group went to basis and a vertex of weight 0.5 went half way
C3_Witness ==
    /\ call.op = "blend_shapekey_from_vgroup"
    /\ report.result = "FINISHED"
    /\ ~call.invert
    /\ \E i \in Verts : /\ EffectiveWeight(i) = 2
                        /\ i \in MovingBefore
                        /\ shape[i] = pre.shape[i]
    /\ \E i \in Verts : /\ VertexGroupsOf(i) = << >>
                        /\ i \in MovingBefore
                        /\ shape[i] = basis[i]
    /\ \E i \in Verts : /\ EffectiveWeight(i) = 1
                        /\ i \in MovingBefore
                        /\ shape[i] # pre.shape[i]
                        /\ shape[i] # basis[i]

\* C4: Blend from Vertex Group with a name the object has no group for
\* reports an ERROR, returns CANCELLED and changes nothing: shape-key
\* positions, basis positions and the interaction mode are as before.
C4_MissingGroupChangesNothing ==
    (call.op = "blend_shapekey_from_vgroup" /\ call.vertex_group \notin GroupNames) =>
        /\ report.level = "ERROR"
        /\ report.result = "CANCELLED"
        /\ shape = pre.shape
        /\ basis = pre.basis
        /\ mode = pre.mode

\* a cancelled blend of a mesh with moving vertices, called outside object mode
C4_Witness ==
    /\ call.op = "blend_shapekey_from_vgroup"
    /\ call.vertex_group = "Missing"
    /\ report.result = "CANCELLED"
    /\ MovingNow # {}
    /\ pre.mode # "OBJECT"

\* squared displacement of vertex i when the last call began
DisplacementBefore(i) == Displacement2(pre.shape, pre.basis, i)

\* how many moving vertices came before vertex i in the ascending, stable order
RankBefore(i) ==
    Cardinality({j \in MovingBefore :
                    \/ DisplacementBefore(j) < DisplacementBefore(i)
                    \/ DisplacementBefore(j) = DisplacementBefore(i) /\ j < i})

\* C5: a PERCENTAGE clean-up of M > 0 moving vertices at percentage p resets
\* floor(M * p / 100) vertices: the first ones of the moving set in ascending
\* order of displacement, ties in vertex order; each ends at basis and every
\* other position is unchanged.
C5_PercentageResetsFloorPrefix ==
    (CleanUpCalled /\ call.threshold_mode = "PERCENTAGE" /\ MovingBefore # {}) =>
        LET reset_count == (Cardinality(MovingBefore) * call.percentage) \div 100 IN
        /\ report.count = reset_count
        /\ \A i \in Verts :
              shape[i] = IF i \in MovingBefore /\ RankBefore(i) < reset_count
                         THEN pre.basis[i] ELSE pre.shape[i]

C7_NothingToCleanHasNoSideEffect ==
    (CleanUpCalled /\ MovingBefore = {}) =>
        /\ report.level = "INFO"
        /\ report.result = "FINISHED"
        /\ shape = pre.shape
        /\ basis = pre.basis
        /\ mode = pre.mode

\* C8: after every clean-up the number of moving vertices is the reported
\* remaining_moving = M - reset_count, M the moving-set size before the call;
\* the moving set never grows and a vertex at basis stays at basis.
C8_RemainingMovingIsExact ==
    CleanUpCalled =>
        /\ MovingBefore # {} =>
              /\ report.moving = Cardinality(MovingBefore)
              /\ report.remaining = report.moving - report.count
              /\ Cardinality(MovingNow) = report.remaining
        /\ MovingNow \subseteq MovingBefore
        /\ \A i \in Verts : pre.shape[i] = pre.basis[i] => shape[i] = basis[i]

\* a clean-up that reset some moving vertices, left others moving, on a mesh
\* that had a vertex at basis
C8_Witness ==
    /\ CleanUpCalled
    /\ report.count >= 1
    /\ report.remaining >= 1
    /\ \E i \in Verts : pre.shape[i] = pre.basis[i]

\* C9 as stated: repeating the PERCENTAGE clean-up at a fixed percentage
\* p > 0 eventually leaves no moving vertex.
C9_ReachesNoMovingVertex == <>(MovingNow = {})

\* C9 as amended: repeating the PERCENTAGE clean-up at a fixed p > 0 never
\* enlarges the moving set and ends for good at a size M for which the call
\* resets int(M * p / 100) = 0 vertices; with p = 100 one call leaves no moving
\* vertex, with p < 100 a mesh that has moving vertices keeps some.
C9_StallsWhereNothingIsReset ==
    /\ <>[](NumToReset(Cardinality(MovingNow), call.percentage) = 0)
    /\ [][MovingNow' \subseteq MovingNow]_vars
    /\ []((CleanUpCalled /\ call.percentage = 100) => MovingNow = {})
    /\ [][(call.percentage < 100 /\ MovingNow # {}) => MovingNow' # {}]_vars

\* a repeated clean-up below 100 % whose last call found moving vertices and
\* reset none of them
C9_Witness ==
    /\ CleanUpCalled
    /\ call.percentage < 100
    /\ MovingBefore # {}
    /\ report.message = "Reset vertices"
    /\ report.count = 0
    /\ MovingNow = MovingBefore

\* vertex i is where lerp(shape[i], basis[i], blend_weight[i]) puts it, for
\* blend_weight[i] = (LINEAR ? n : 1 - n) * percentage / 100 and n = d / max_d
\* or d.  With D = d^2, e the inner product of the step taken and the step to
\* basis, the step taken is e / D of the step to basis, and
\* sqrt(X) * p / 100 = e / D is compared in squares (X = D / max D, or D).
IsDistanceBlend(i, distance_mode, normalize) ==
    LET to_basis == Sub(pre.basis[i], pre.shape[i])
        taken    == Sub(shape[i], pre.shape[i])
        D        == DisplacementBefore(i)
        e        == taken[1] * to_basis[1] + taken[2] * to_basis[2] + taken[3] * to_basis[3]
        max_D    == CHOOSE x \in {DisplacementBefore(j) : j \in Verts} :
                        \A j \in Verts : DisplacementBefore(j) <= x
        X        == IF normalize THEN <<D, max_D>> ELSE <<D, 1>>
        pc       == call.percentage
    IN  IF D = 0 THEN taken = Zero
        ELSE /\ \A c, k \in 1..3 : taken[c] * to_basis[k] = taken[k] * to_basis[c]
             /\ IF distance_mode = "LINEAR"
                THEN /\ e >= 0
                     /\ X[1] * pc * pc * D * D = 10000 * e * e * X[2]
                ELSE /\ pc * D - 100 * e >= 0
                     /\ X[1] * pc * pc * D * D = (pc * D - 100 * e) * (pc * D - 100 * e) * X[2]

\* C10 as stated: mesh.blend_to_basis_by_distance moves every vertex to
\* lerp(shape, basis, blend_weight) for a mode LINEAR or INVERSE and a
\* normalize flag, and changes no position when no vertex moves.
C10_BlendsByDistance ==
    CleanUpCalled =>
        IF MovingBefore = {} THEN shape = pre.shape
        ELSE \E distance_mode \in {"LINEAR", "INVERSE"}, normalize \in BOOLEAN :
                \A i \in Verts : IsDistanceBlend(i, distance_mode, normalize)

\* C10 as amended: mesh.blend_to_basis_by_distance has no LINEAR or INVERSE
\* mode and no normalize flag; it moves no vertex part of the way: every
\* vertex ends at lerp(shape, basis, w) with w = 1 (exactly basis) for the
\* reset_count vertices it resets and w = 0 (unchanged) for the others, no
\* reset vertex was displaced further than one it left moving, and no
\* position changes when no vertex moves.
C10_ResetsOrLeavesEachVertex ==
    CleanUpCalled =>
        /\ \A i \in Verts : shape[i] = pre.shape[i] \/ shape[i] = pre.basis[i]
        /\ Cardinality(MovingBefore \ MovingNow) = report.count
        /\ \A i \in MovingBefore \ MovingNow, j \in MovingNow :
              DisplacementBefore(i) <= DisplacementBefore(j)
        /\ MovingBefore = {} => shape = pre.shape

\* a PERCENTAGE clean-up between 0 and 100 % that reset one vertex and left
\* a moving vertex where it was
C10_Witness ==
    /\ CleanUpCalled
    /\ call.threshold_mode = "PERCENTAGE"
    /\ call.percentage \in 1..99
    /\ report.count >= 1
    /\ \E i \in MovingNow : shape[i] = pre.shape[i]
====
